---------------------------- MODULE Spec2Model ----------------------------
(***************************************************************************)
(* One invocation of composio-cli (src/src/cli.js): commander has parsed   *)
(* the command line and dispatches to the subcommand's action.  The model  *)
(* follows the action from buildClient to the last write, one step per     *)
(* synchronous stretch of code between two awaits.                         *)
(*                                                                         *)
(* JavaScript values are tagged records [t, s, items]; texts (what is      *)
(* written to stdout, the JSON flags, a file's contents) are sequences of  *)
(* tokens [k, s]; comma-separated flags are sequences of one-character     *)
(* strings, so that JSON.stringify, JSON.parse and parseCsv are computed   *)
(* and not assumed.                                                        *)
(***************************************************************************)
EXTENDS Integers, Sequences, FiniteSets, TLC

\* Largest number of items in a comma-separated flag of the enumerated inputs.
MaxItems == 2
\* Number of connected accounts the external service may hold.
MaxAccounts == 3

(***************************************************************************)
(* JavaScript values                                                       *)
(***************************************************************************)
JUndefined == [t |-> "undefined", s |-> "", items |-> <<>>]
JNull == [t |-> "null", s |-> "", items |-> <<>>]
JBool(b) == [t |-> "boolean", s |-> IF b THEN "true" ELSE "false", items |-> <<>>]
JNum(n) == [t |-> "number", s |-> ToString(n), items |-> <<>>]
JStr(s) == [t |-> "string", s |-> s, items |-> <<>>]
JArr(items) == [t |-> "array", s |-> "", items |-> items]
\* An object is its members [k, v] in insertion order.
JObj(members) == [t |-> "object", s |-> "", items |-> members]
Member(k, v) == [k |-> k, v |-> v]

\* obj.key: undefined when the object has no such member.
Prop(obj, key) ==
    IF obj.t # "object" \/ \A i \in 1..Len(obj.items) : obj.items[i].k # key
    THEN JUndefined
    ELSE LET i == CHOOSE j \in 1..Len(obj.items) : obj.items[j].k = key
         IN obj.items[i].v

\* obj?.key
OptProp(obj, key) == IF obj.t \in {"undefined", "null"} THEN JUndefined ELSE Prop(obj, key)

\* v ?? d
Coalesce(v, d) == IF v.t \in {"undefined", "null"} THEN d ELSE v

\* `if (obj.key) ...; ` assignments that build a request: the member is added
\* only when the condition holds.
WithMember(obj, cond, k, v) == IF cond THEN JObj(Append(obj.items, Member(k, v))) ELSE obj

(***************************************************************************)
(* Texts: sequences of tokens                                              *)
(***************************************************************************)
Tok(k, s) == [k |-> k, s |-> s]
Punct(s) == Tok("punct", s)
Word(s) == Tok("word", s)
Quoted(s) == Tok("string", s)
Digits(s) == Tok("number", s)
\* Unquoted characters that are no JSON token.
Bare(s) == Tok("bare", s)
NL == Tok("space", "\n")
SP == Tok("space", " ")

Indent(pretty, depth) == IF pretty THEN <<NL>> \o [i \in 1..(2 * depth) |-> SP] ELSE <<>>

RECURSIVE Stringify(_, _, _)
RECURSIVE StringifyElements(_, _, _, _)
RECURSIVE StringifyMembers(_, _, _, _)

\* JSON.stringify(v) (pretty = FALSE) and JSON.stringify(v, null, 2) (pretty = TRUE)
\* for a value that is not undefined.
Stringify(v, pretty, depth) ==
    CASE v.t = "null" -> <<Word("null")>>
      [] v.t = "boolean" -> <<Word(v.s)>>
      [] v.t = "number" -> <<Digits(v.s)>>
      [] v.t = "string" -> <<Quoted(v.s)>>
      [] v.t = "array" ->
            IF v.items = <<>>
            THEN <<Punct("["), Punct("]")>>
            ELSE <<Punct("[")>> \o StringifyElements(v.items, 1, pretty, depth + 1)
                     \o Indent(pretty, depth) \o <<Punct("]")>>
      [] v.t = "object" ->
            LET ms == SelectSeq(v.items, LAMBDA m : m.v.t # "undefined")
            IN IF ms = <<>>
               THEN <<Punct("{"), Punct("}")>>
               ELSE <<Punct("{")>> \o StringifyMembers(ms, 1, pretty, depth + 1)
                        \o Indent(pretty, depth) \o <<Punct("}")>>

StringifyElements(items, i, pretty, depth) ==
    IF i > Len(items) THEN <<>>
    ELSE Indent(pretty, depth)
           \o Stringify(IF items[i].t = "undefined" THEN JNull ELSE items[i], pretty, depth)
           \o (IF i < Len(items) THEN <<Punct(",")>> ELSE <<>>)
           \o StringifyElements(items, i + 1, pretty, depth)

StringifyMembers(ms, i, pretty, depth) ==
    IF i > Len(ms) THEN <<>>
    ELSE Indent(pretty, depth)
           \o <<Quoted(ms[i].k), Punct(":")>> \o (IF pretty THEN <<SP>> ELSE <<>>)
           \o Stringify(ms[i].v, pretty, depth)
           \o (IF i < Len(ms) THEN <<Punct(",")>> ELSE <<>>)
           \o StringifyMembers(ms, i + 1, pretty, depth)

ParseFail == [ok |-> FALSE, v |-> JNull, next |-> 0]
ParseOk(v, next) == [ok |-> TRUE, v |-> v, next |-> next]
IsPunct(toks, i, s) == i <= Len(toks) /\ toks[i] = Punct(s)

RECURSIVE ParseValue(_, _)
RECURSIVE ParseElements(_, _, _)
RECURSIVE ParseMembers(_, _, _)

\* One JSON value starting at token i of toks (whitespace already skipped).
ParseValue(toks, i) ==
    IF i > Len(toks) THEN ParseFail
    ELSE LET tok == toks[i] IN
         CASE tok.k = "word" ->
                ParseOk(IF tok.s = "null" THEN JNull ELSE JBool(tok.s = "true"), i + 1)
           [] tok.k = "string" -> ParseOk(JStr(tok.s), i + 1)
           [] tok.k = "number" -> ParseOk([t |-> "number", s |-> tok.s, items |-> <<>>], i + 1)
           [] tok = Punct("[") ->
                IF IsPunct(toks, i + 1, "]") THEN ParseOk(JArr(<<>>), i + 2)
                ELSE ParseElements(toks, i + 1, <<>>)
           [] tok = Punct("{") ->
                IF IsPunct(toks, i + 1, "}") THEN ParseOk(JObj(<<>>), i + 2)
                ELSE ParseMembers(toks, i + 1, <<>>)
           [] OTHER -> ParseFail

ParseElements(toks, i, acc) ==
    LET r == ParseValue(toks, i) IN
    IF ~r.ok THEN ParseFail
    ELSE IF IsPunct(toks, r.next, ",") THEN ParseElements(toks, r.next + 1, Append(acc, r.v))
    ELSE IF IsPunct(toks, r.next, "]") THEN ParseOk(JArr(Append(acc, r.v)), r.next + 1)
    ELSE ParseFail

ParseMembers(toks, i, acc) ==
    IF ~(i <= Len(toks) /\ toks[i].k = "string" /\ IsPunct(toks, i + 1, ":")) THEN ParseFail
    ELSE LET r == ParseValue(toks, i + 2) IN
         IF ~r.ok THEN ParseFail
         ELSE LET ms == Append(acc, Member(toks[i].s, r.v)) IN
              IF IsPunct(toks, r.next, ",") THEN ParseMembers(toks, r.next + 1, ms)
              ELSE IF IsPunct(toks, r.next, "}") THEN ParseOk(JObj(ms), r.next + 1)
              ELSE ParseFail

\* JSON.parse(text): [ok, v]; ok = FALSE stands for the SyntaxError it throws.
JSONParse(text) ==
    LET toks == SelectSeq(text, LAMBDA tok : tok.k # "space")
        r == ParseValue(toks, 1)
    IN IF r.ok /\ r.next = Len(toks) + 1
       THEN [ok |-> TRUE, v |-> r.v]
       ELSE [ok |-> FALSE, v |-> JNull]


(***************************************************************************)
(* Command-line flags                                                      *)
(***************************************************************************)
\* A flag commander did not see leaves its option undefined.  The text of
\* a plain flag is a string, of a comma-separated or numeric flag a sequence
\* of lexemes, of a JSON flag a sequence of tokens.
Flag(text) == [given |-> TRUE, text |-> text]
NoStr == [given |-> FALSE, text |-> ""]
NoSeq == [given |-> FALSE, text |-> <<>>]

\* `if (options.x)`: undefined and the empty string are falsy.
Truthy(flag) == flag.given /\ Len(flag.text) > 0

\* The option as a JavaScript value (plain flags).
StrValue(flag) == IF flag.given THEN JStr(flag.text) ELSE JUndefined

RECURSIVE Join(_)
Join(lexemes) == IF lexemes = <<>> THEN "" ELSE Head(lexemes) \o Join(Tail(lexemes))

RECURSIVE Split(_, _)
\* value.split(sep)
Split(lexemes, sep) ==
    IF \A i \in 1..Len(lexemes) : lexemes[i] # sep
    THEN <<lexemes>>
    ELSE LET i == CHOOSE j \in 1..Len(lexemes) :
                      lexemes[j] = sep /\ \A k \in 1..(j - 1) : lexemes[k] # sep
         IN <<SubSeq(lexemes, 1, i - 1)>> \o Split(SubSeq(lexemes, i + 1, Len(lexemes)), sep)

RECURSIVE TrimStart(_)
TrimStart(lexemes) ==
    IF lexemes # <<>> /\ Head(lexemes) = " " THEN TrimStart(Tail(lexemes)) ELSE lexemes

RECURSIVE TrimEnd(_)
TrimEnd(lexemes) ==
    IF lexemes # <<>> /\ lexemes[Len(lexemes)] = " "
    THEN TrimEnd(SubSeq(lexemes, 1, Len(lexemes) - 1))
    ELSE lexemes

\* item.trim()
Trim(lexemes) == TrimEnd(TrimStart(lexemes))

\* parseCsv(value): the array of the non-empty trimmed items.
parseCsv(value) ==
    LET parts == Split(value, ",")
        trimmed == [i \in 1..Len(parts) |-> Join(Trim(parts[i]))]
        kept == SelectSeq(trimmed, LAMBDA item : item # "")
    IN JArr([i \in 1..Len(kept) |-> JStr(kept[i])])

\* `options.x ? parseCsv(options.x) : null`
CsvOrNull(flag) == IF Truthy(flag) THEN parseCsv(flag.text) ELSE JNull

IsDigit(lexeme) == \E d \in 0..9 : lexeme = ToString(d)
DigitValue(lexeme) == CHOOSE d \in 0..9 : lexeme = ToString(d)

RECURSIVE Decimal(_)
Decimal(lexemes) ==
    IF lexemes = <<>> THEN 0
    ELSE 10 * Decimal(SubSeq(lexemes, 1, Len(lexemes) - 1)) + DigitValue(lexemes[Len(lexemes)])

NaN == [t |-> "number", s |-> "NaN", items |-> <<>>]
Infinity == [t |-> "number", s |-> "Infinity", items |-> <<>>]

\* Number(value), commander's parser of --limit; an absent flag stays undefined.
NumberValue(flag) ==
    IF ~flag.given THEN JUndefined
    ELSE IF \A i \in 1..Len(flag.text) : IsDigit(flag.text[i]) THEN JNum(Decimal(flag.text))
    ELSE IF flag.text = <<"Infinity">> THEN Infinity
    ELSE NaN

\* Number.isFinite(v)
IsFinite(v) == v.t = "number" /\ v.s \notin {"NaN", "Infinity", "-Infinity"}

(***************************************************************************)
(* Helpers of cli.js                                                       *)
(***************************************************************************)
\* parseJson(value, label): [ok, v, message].
parseJson(value, label) ==
    LET r == JSONParse(value) IN
    IF r.ok THEN [ok |-> TRUE, v |-> r.v, message |-> ""]
    ELSE [ok |-> FALSE, v |-> JNull,
          message |-> "Invalid JSON for " \o label \o ": Unexpected token"]

MissingApiKey == "Missing Composio API key. Provide --api-key or set COMPOSIO_API_KEY."

\* globalOptions.apiKey ?? process.env.COMPOSIO_API_KEY
ResolveApiKey(g, e) == IF g.apiKey.given THEN g.apiKey ELSE e

\* Variant: only an undefined key is missing, an empty one is accepted.
MissingKeyUndefinedOnly(apiKey) == ~apiKey.given

\* `if (!apiKey)`
MissingKey(apiKey) == ~Truthy(apiKey)

\* buildClient(globalOptions): [ok, client, message, parsed]; client is the
\* configuration the Composio client is constructed with, parsed the labels
\* handed to parseJson.
buildClient(g, e) ==
    LET apiKey == ResolveApiKey(g, e)
        versions == parseJson(g.toolkitVersions.text, "--toolkit-versions")
        config == JObj(<<Member("apiKey", StrValue(apiKey)),
                         Member("disableVersionCheck", JBool(TRUE))>>)
    IN IF MissingKey(apiKey)
       THEN [ok |-> FALSE, client |-> JUndefined, message |-> MissingApiKey, parsed |-> <<>>]
       ELSE IF ~Truthy(g.toolkitVersions)
       THEN [ok |-> TRUE, client |-> config, message |-> "", parsed |-> <<>>]
       ELSE IF ~versions.ok
       THEN [ok |-> FALSE, client |-> JUndefined, message |-> versions.message,
             parsed |-> <<"--toolkit-versions">>]
       ELSE [ok |-> TRUE, client |-> WithMember(config, TRUE, "toolkitVersions", versions.v),
             message |-> "", parsed |-> <<"--toolkit-versions">>]

\* The characters of a string written as they are.
Verbatim(s) == IF s \in {"null", "true", "false"} THEN <<Word(s)>> ELSE <<Bare(s)>>

\* printOutput(data, raw): the process.stdout.write calls, in order.
printOutput(data, raw, isTTY) ==
    IF raw
    THEN <<IF data.t = "string" THEN Verbatim(data.s) ELSE Stringify(data, FALSE, 0)>>
            \o (IF ~isTTY THEN <<(<<NL>>)>> ELSE <<>>)
    ELSE <<Stringify(data, TRUE, 0) \o <<NL>>>>

\* Variant: the hint is dropped.
handleErrorNoHint(message, hint) == <<"Error: " \o message>>

\* handleError(error, hint): the console.error lines; hint "" is no hint.
handleError(message, hint) ==
    <<"Error: " \o message>> \o (IF hint # "" THEN <<hint>> ELSE <<>>)

\* The hint of the execute command (the text without its backquotes).
ExecuteHint == "Tip: use composio-cli schema --tool <slug> to view required arguments."

(***************************************************************************)
(* The external service behind the SDK                                     *)
(***************************************************************************)
\* The i-th connected account the service may hold.
Account(i) ==
    [id |-> "ca_" \o ToString(i),
     user |-> IF i % 4 = 0 THEN "user_2" ELSE "user_1",
     toolkit |-> IF i % 3 = 0 THEN "gmail" ELSE "twitter",
     status |-> IF i % 3 = 0 THEN "INITIATED" ELSE "ACTIVE",
     authConfig |-> IF i % 2 = 1 THEN "ac_1" ELSE "ac_2"]

\* An item of a connectedAccounts.list response.
AccountItem(a) ==
    JObj(<<Member("id", JStr(a.id)),
           Member("status", JStr(a.status)),
           Member("toolkit", JObj(<<Member("slug", JStr(a.toolkit))>>)),
           Member("authConfig", JObj(<<Member("id", JStr(a.authConfig))>>))>>)

\* A filter of a list query admits s: it is absent, or an array holding s.
Admits(filter, s) ==
    filter.t # "array" \/ \E i \in 1..Len(filter.items) : filter.items[i] = JStr(s)

\* What connectedAccounts.list(query) resolves to when the service holds the
\* accounts numbered held: the accounts the query's filters admit.
ListResponse(query, held) ==
    LET all == [i \in 1..MaxAccounts |-> Account(i)]
        hit == SelectSeq(all, LAMBDA a :
                   /\ \E i \in held : Account(i) = a
                   /\ Admits(Prop(query, "userIds"), a.user)
                   /\ Admits(Prop(query, "toolkitSlugs"), a.toolkit)
                   /\ Admits(Prop(query, "statuses"), a.status)
                   /\ Admits(Prop(query, "authConfigIds"), a.authConfig))
    IN JObj(<<Member("items", JArr([i \in 1..Len(hit) |-> AccountItem(hit[i])])),
              Member("nextCursor", JNull)>>)

ToolkitObject(slug) == JObj(<<Member("slug", slug), Member("name", JStr("Toolkit"))>>)

ToolObject ==
    JObj(<<Member("slug", JStr("GITHUB_GET_REPOS")),
           Member("name", JStr("Get repos")),
           Member("description", JStr("Lists repositories")),
           Member("toolkit", JObj(<<Member("slug", JStr("github"))>>)),
           Member("inputParameters", JObj(<<Member("type", JStr("object"))>>)),
           Member("tags", JArr(<<JStr("important")>>))>>)

\* The connection requests toolkits.authorize may resolve to: the id is always
\* there, the redirect URL and the status may be missing.
ConnectionRequests ==
    { JObj(<<Member("id", JStr("req_1"))>>
            \o (IF url THEN <<Member("redirectUrl", JStr("https://connect/req_1"))>> ELSE <<>>)
            \o (IF st THEN <<Member("status", JStr("INITIATED"))>> ELSE <<>>))
      : url \in BOOLEAN, st \in BOOLEAN }

\* What a call may resolve to.
Responses(call, held) ==
    CASE call.name = "toolkits.get" ->
            IF call.args # <<>> /\ call.args[1].t = "string"
            THEN {ToolkitObject(call.args[1])}
            ELSE {JArr(<<>>), JArr(<<ToolkitObject(JStr("github"))>>)}
      [] call.name = "connectedAccounts.list" -> {ListResponse(call.args[1], held)}
      [] call.name = "toolkits.authorize" -> ConnectionRequests
      [] call.name = "tools.getRawComposioToolBySlug" ->
            {ToolObject, JObj(<<Member("slug", call.args[1]), Member("name", JStr("Tool"))>>)}
      [] call.name = "tools.getToolsEnum" ->
            {JStr("GITHUB_GET_REPOS"), JArr(<<JStr("GITHUB_GET_REPOS")>>)}
      [] call.name = "tools.get" -> {JArr(<<>>), JArr(<<ToolObject>>)}
      [] call.name = "tools.execute" ->
            {JObj(<<Member("data", JObj(<<>>)), Member("error", JNull),
                    Member("successful", JBool(TRUE))>>),
             JNull}

\* The message of the error a rejected call throws.
ExternalErrors == {"No auth configs found"}

\* What readFile(path, 'utf8') may resolve to.
FileContents ==
    {Stringify(JObj(<<Member("owner", JStr("composio"))>>), TRUE, 0), <<Punct("{")>>, <<>>}

\* The message of the error a rejected readFile throws.
FileErrors == {"ENOENT: no such file or directory"}

(***************************************************************************)
(* State                                                                   *)
(***************************************************************************)
VARIABLES
    cmd,            \* the subcommand commander dispatched to
    globalOptions,  \* program.opts(): apiKey, toolkitVersions, raw
    env,            \* process.env.COMPOSIO_API_KEY
    options,        \* the subcommand's options
    accounts,       \* the connected accounts the service holds (their numbers)
    pc,             \* "start", "await" (an SDK call), "readFile", "done"
    client,         \* the configuration of the constructed client, or undefined
    calls,          \* the SDK calls issued, in order: [name, args]
    outcomes,       \* how each settled call ended: "resolved" or "rejected"
    parsed,         \* the labels handed to parseJson, in order
    fileReads,      \* the paths handed to readFile, in order
    printed,        \* the values handed to printOutput, in order
    stdout,         \* the process.stdout.write calls, in order
    stderr,         \* the console.error lines, in order
    exitCode        \* process.exitCode

inputs == <<cmd, globalOptions, env, options, accounts>>
vars == <<cmd, globalOptions, env, options, accounts, pc, client, calls, outcomes,
          parsed, fileReads, printed, stdout, stderr, exitCode>>

Call(name, args) == [name |-> name, args |-> args]
LastCall == calls[Len(calls)]

(***************************************************************************)
(* The invocations enumerated                                              *)
(***************************************************************************)
Commands == {"toolkits", "auth-url", "schema", "connections", "tools", "execute"}

StrFlags(texts) == {NoStr} \cup {Flag(text) : text \in texts}
SeqFlags(texts) == {NoSeq} \cup {Flag(text) : text \in texts}

\* "t1, t2, ..." with n items.
CsvText(n) ==
    [j \in 1..(3 * n - 2) |->
        IF j % 3 = 1 THEN "t" \o ToString((j + 2) \div 3)
        ELSE IF j % 3 = 2 THEN "," ELSE " "]

LimitFlags == SeqFlags({<<"5">>, <<"a">>})

VersionsText == Stringify(JObj(<<Member("github", JStr("20250909_00"))>>), FALSE, 0)
ArgsText == Stringify(JObj(<<>>), FALSE, 0)
BrokenText == <<Punct("{")>>

GlobalInputs ==
    [apiKey : StrFlags({"", "key_flag"}),
     toolkitVersions : SeqFlags({VersionsText, BrokenText}),
     raw : BOOLEAN]

EnvInputs == StrFlags({"key_env"})

OptionInputs(c) ==
    CASE c = "toolkits" ->
            [slug : StrFlags({"", "github"}), category : StrFlags({"crm"}),
             managedBy : StrFlags({"composio"}), sortBy : StrFlags({"usage"}),
             cursor : StrFlags({"cur_1"}), limit : LimitFlags]
      [] c = "auth-url" ->
            [user : {Flag("user_1")}, toolkit : {Flag("twitter"), Flag("gmail")},
             authConfigId : StrFlags({"ac_1", "ac_2"}), force : BOOLEAN]
      [] c = "schema" ->
            [tool : {Flag("GITHUB_GET_REPOS")}, full : BOOLEAN]
      [] c = "connections" ->
            [user : {Flag("user_1")}, toolkits : SeqFlags({<<"twitter">>}),
             statuses : SeqFlags({<<"ACTIVE">>}), authConfigIds : SeqFlags({<<"ac_1">>}),
             orderBy : StrFlags({"created_at"}), cursor : StrFlags({"cur_1"}),
             limit : LimitFlags, full : BOOLEAN]
      [] c = "tools" ->
            [user : {Flag("user_1")},
             toolkits : SeqFlags({<<>>, <<",">>} \cup {CsvText(n) : n \in 1..MaxItems}),
             tools : SeqFlags({<<>>, CsvText(1)}),
             search : StrFlags({"", "issue"}),
             tags : SeqFlags({CsvText(1)}),
             scopes : SeqFlags({<<>>, CsvText(1)}),
             authConfigIds : SeqFlags({CsvText(1)}),
             limit : LimitFlags, important : BOOLEAN, all : BOOLEAN]
      [] c = "execute" ->
            [user : {Flag("user_1")}, tool : {Flag("GITHUB_GET_REPOS")},
             args : SeqFlags({<<>>, ArgsText, BrokenText}),
             argsFile : StrFlags({"", "./args.json"}),
             connectedAccount : StrFlags({"ca_1"}), version : StrFlags({"latest"}),
             skipVersionCheck : BOOLEAN, text : StrFlags({"hello"})]

\* The service's accounts matter to the two commands that list them.
AccountInputs(c) ==
    IF c \in {"auth-url", "connections"} THEN SUBSET (1..MaxAccounts) ELSE {{}}

Init ==
    /\ globalOptions \in GlobalInputs
    /\ env \in EnvInputs
    /\ \E c \in Commands :
          /\ cmd = c
          /\ options \in OptionInputs(c)
          /\ accounts \in AccountInputs(c)
    /\ pc = "start"
    /\ client = JUndefined
    /\ calls = <<>>
    /\ outcomes = <<>>
    /\ parsed = <<>>
    /\ fileReads = <<>>
    /\ printed = <<>>
    /\ stdout = <<>>
    /\ stderr = <<>>
    /\ exitCode = 0

(***************************************************************************)
(* How a stretch of an action ends                                         *)
(***************************************************************************)
\* A throw, caught by the action's catch: handleError(error, hint).
Fails(message, hint) ==
    /\ stderr' = stderr \o handleError(message, hint)
    /\ exitCode' = 1
    /\ pc' = "done"
    /\ UNCHANGED <<calls, printed, stdout>>

\* printOutput(data, globalOptions.raw), the action's last statement.
Prints(data) ==
    /\ printed' = Append(printed, data)
    /\ \E isTTY \in BOOLEAN : stdout' = stdout \o printOutput(data, globalOptions.raw, isTTY)
    /\ pc' = "done"
    /\ UNCHANGED <<calls, stderr, exitCode>>

\* `await composio.<name>(...args)`.
Awaits(name, args) ==
    /\ calls' = Append(calls, Call(name, args))
    /\ pc' = "await"
    /\ UNCHANGED <<printed, stdout, stderr, exitCode>>

\* The awaited call rejects: the action's catch runs.
Rejects(hint) ==
    \E message \in ExternalErrors :
        /\ outcomes' = Append(outcomes, "rejected")
        /\ Fails(message, hint)

Resolved == outcomes' = Append(outcomes, "resolved")

AwaitingCall(c, name) == pc = "await" /\ cmd = c /\ LastCall.name = name

(***************************************************************************)
(* toolkits                                                                *)
(***************************************************************************)
\* The query of the listing mode: a field for each flag supplied.
ToolkitsQuery(o) ==
    LET q1 == WithMember(JObj(<<>>), Truthy(o.category), "category", StrValue(o.category))
        q2 == WithMember(q1, Truthy(o.managedBy), "managedBy", StrValue(o.managedBy))
        q3 == WithMember(q2, Truthy(o.sortBy), "sortBy", StrValue(o.sortBy))
        q4 == WithMember(q3, Truthy(o.cursor), "cursor", StrValue(o.cursor))
    IN WithMember(q4, IsFinite(NumberValue(o.limit)), "limit", NumberValue(o.limit))

\* Variant: the query is preferred to the slug.
ToolkitsGetArgsQueryFirst(o) ==
    IF Len(ToolkitsQuery(o).items) > 0 THEN <<ToolkitsQuery(o)>>
    ELSE IF Truthy(o.slug) THEN <<StrValue(o.slug)>>
    ELSE <<>>

\* The arguments of composio.toolkits.get.
ToolkitsGetArgs(o) ==
    IF Truthy(o.slug) THEN <<StrValue(o.slug)>>
    ELSE IF Len(ToolkitsQuery(o).items) > 0 THEN <<ToolkitsQuery(o)>>
    ELSE <<>>

ToolkitsAction ==
    /\ pc = "start" /\ cmd = "toolkits"
    /\ LET built == buildClient(globalOptions, env) IN
       /\ client' = built.client
       /\ parsed' = parsed \o built.parsed
       /\ IF ~built.ok THEN Fails(built.message, "")
          ELSE Awaits("toolkits.get", ToolkitsGetArgs(options))
    /\ UNCHANGED <<inputs, outcomes, fileReads>>

ToolkitsSettled ==
    /\ AwaitingCall("toolkits", "toolkits.get")
    /\ \/ Rejects("")
       \/ \E result \in Responses(LastCall, accounts) : Resolved /\ Prints(result)
    /\ UNCHANGED <<inputs, client, parsed, fileReads>>

(***************************************************************************)
(* auth-url                                                                *)
(***************************************************************************)
PageLimit == 50

\* listParams
AuthUrlListParams(o) ==
    WithMember(
        JObj(<<Member("userIds", JArr(<<StrValue(o.user)>>)),
               Member("toolkitSlugs", JArr(<<StrValue(o.toolkit)>>)),
               Member("statuses", JArr(<<JStr("ACTIVE")>>)),
               Member("limit", JNum(PageLimit))>>),
        Truthy(o.authConfigId), "authConfigIds", JArr(<<StrValue(o.authConfigId)>>))

\* The arguments of composio.toolkits.authorize.
AuthorizeArgs(o) == <<StrValue(o.user), StrValue(o.toolkit), StrValue(o.authConfigId)>>

\* Variant: the listing's items are not looked at.
HasItemsNever(existing) == FALSE

\* Variant: a single existing connection does not count.
HasSeveralItems(existing) ==
    LET items == Prop(existing, "items") IN items.t = "array" /\ Len(items.items) > 1

\* `existing.items && existing.items.length > 0`
HasItems(existing) ==
    LET items == Prop(existing, "items") IN items.t = "array" /\ Len(items.items) > 0

\* The summary of one existing connection.
ConnectionSummary(item) ==
    JObj(<<Member("id", Prop(item, "id")),
           Member("status", Prop(item, "status")),
           Member("toolkit", OptProp(Prop(item, "toolkit"), "slug")),
           Member("authConfigId", OptProp(Prop(item, "authConfig"), "id"))>>)

\* The payload when a connection exists.
AuthenticatedPayload(existing) ==
    LET items == Prop(existing, "items").items IN
    JObj(<<Member("authenticated", JBool(TRUE)),
           Member("connectedAccounts",
                  JArr([i \in 1..Len(items) |-> ConnectionSummary(items[i])]))>>)

\* The payload of a new connection request.
RequestPayload(connectionRequest) ==
    JObj(<<Member("authenticated", JBool(FALSE)),
           Member("redirectUrl", Coalesce(Prop(connectionRequest, "redirectUrl"), JNull)),
           Member("connectionRequestId", Prop(connectionRequest, "id")),
           Member("status", Coalesce(Prop(connectionRequest, "status"), JNull))>>)

\* Variant: --force is ignored.
ListsAlways(o) == TRUE

\* `if (!options.force)`: the existing connections are listed first.
ListsFirst(o) == ~o.force

AuthUrlAction ==
    /\ pc = "start" /\ cmd = "auth-url"
    /\ LET built == buildClient(globalOptions, env) IN
       /\ client' = built.client
       /\ parsed' = parsed \o built.parsed
       /\ IF ~built.ok THEN Fails(built.message, "")
          ELSE IF ListsFirst(options)
          THEN Awaits("connectedAccounts.list", <<AuthUrlListParams(options)>>)
          ELSE Awaits("toolkits.authorize", AuthorizeArgs(options))
    /\ UNCHANGED <<inputs, outcomes, fileReads>>

AuthUrlListSettled ==
    /\ AwaitingCall("auth-url", "connectedAccounts.list")
    /\ \/ Rejects("")
       \/ \E existing \in Responses(LastCall, accounts) :
             /\ Resolved
             /\ IF HasItems(existing)
                THEN Prints(AuthenticatedPayload(existing))
                ELSE Awaits("toolkits.authorize", AuthorizeArgs(options))
    /\ UNCHANGED <<inputs, client, parsed, fileReads>>

AuthUrlAuthorizeSettled ==
    /\ AwaitingCall("auth-url", "toolkits.authorize")
    /\ \/ Rejects("")
       \/ \E connectionRequest \in Responses(LastCall, accounts) :
             Resolved /\ Prints(RequestPayload(connectionRequest))
    /\ UNCHANGED <<inputs, client, parsed, fileReads>>

(***************************************************************************)
(* schema                                                                  *)
(***************************************************************************)
\* The projection printed without --full.
SchemaPayload(tool) ==
    JObj(<<Member("slug", Prop(tool, "slug")),
           Member("name", Prop(tool, "name")),
           Member("description", Prop(tool, "description")),
           Member("toolkit", Coalesce(OptProp(Prop(tool, "toolkit"), "slug"), JNull)),
           Member("inputParameters", Coalesce(Prop(tool, "inputParameters"), JNull)),
           Member("version", Coalesce(Prop(tool, "version"), JNull)),
           Member("availableVersions", Coalesce(Prop(tool, "availableVersions"), JNull))>>)

SchemaAction ==
    /\ pc = "start" /\ cmd = "schema"
    /\ LET built == buildClient(globalOptions, env) IN
       /\ client' = built.client
       /\ parsed' = parsed \o built.parsed
       /\ IF ~built.ok THEN Fails(built.message, "")
          ELSE Awaits("tools.getRawComposioToolBySlug", <<StrValue(options.tool)>>)
    /\ UNCHANGED <<inputs, outcomes, fileReads>>

SchemaSettled ==
    /\ AwaitingCall("schema", "tools.getRawComposioToolBySlug")
    /\ \/ Rejects("")
       \/ \E tool \in Responses(LastCall, accounts) :
             Resolved /\ Prints(IF options.full THEN tool ELSE SchemaPayload(tool))
    /\ UNCHANGED <<inputs, client, parsed, fileReads>>

(***************************************************************************)
(* connections                                                             *)
(***************************************************************************)
ConnectionsQuery(o) ==
    LET q0 == JObj(<<Member("userIds", JArr(<<StrValue(o.user)>>))>>)
        q1 == WithMember(q0, Truthy(o.toolkits), "toolkitSlugs", parseCsv(o.toolkits.text))
        q2 == WithMember(q1, Truthy(o.statuses), "statuses", parseCsv(o.statuses.text))
        q3 == WithMember(q2, Truthy(o.authConfigIds), "authConfigIds",
                         parseCsv(o.authConfigIds.text))
        q4 == WithMember(q3, Truthy(o.orderBy), "orderBy", StrValue(o.orderBy))
        q5 == WithMember(q4, Truthy(o.cursor), "cursor", StrValue(o.cursor))
    IN WithMember(q5, IsFinite(NumberValue(o.limit)), "limit", NumberValue(o.limit))

\* `(result.items ?? []).map(...)`
ConnectionsPayload(result) ==
    LET items == Coalesce(Prop(result, "items"), JArr(<<>>)).items IN
    JArr([i \in 1..Len(items) |->
            JObj(<<Member("id", Prop(items[i], "id")),
                   Member("status", Prop(items[i], "status")),
                   Member("toolkit",
                          Coalesce(OptProp(Prop(items[i], "toolkit"), "slug"), JNull))>>)])

ConnectionsAction ==
    /\ pc = "start" /\ cmd = "connections"
    /\ LET built == buildClient(globalOptions, env) IN
       /\ client' = built.client
       /\ parsed' = parsed \o built.parsed
       /\ IF ~built.ok THEN Fails(built.message, "")
          ELSE Awaits("connectedAccounts.list", <<ConnectionsQuery(options)>>)
    /\ UNCHANGED <<inputs, outcomes, fileReads>>

ConnectionsSettled ==
    /\ AwaitingCall("connections", "connectedAccounts.list")
    /\ \/ Rejects("")
       \/ \E result \in Responses(LastCall, accounts) :
             Resolved /\ Prints(IF options.full THEN result ELSE ConnectionsPayload(result))
    /\ UNCHANGED <<inputs, client, parsed, fileReads>>

(***************************************************************************)
(* tools                                                                   *)
(***************************************************************************)
MissingFilter ==
    "Provide --toolkits, --tools, --search, --tags, or --auth-config-ids (or use --all)."
SearchConflict == "--search cannot be combined with other filters."
LimitConflict == "--limit cannot be used with --search."
ToolsConflict == "--tools cannot be combined with other filters."
ScopesUsage == "--scopes requires exactly one toolkit in --toolkits."

\* An array is truthy, null is not.
IsSet(v) == v.t # "null"

\* const hasSearch = Boolean(options.search)
HasSearch(o) == Truthy(o.search)

\* Variant: --all gives way to --search.
ListsAllUnfiltered(o) == o.all /\ ~Truthy(o.search)

\* `if (options.all)`: the catalog is enumerated and nothing else is looked at.
ListsAll(o) == o.all

\* Variant: scopes is left out of the filters --search excludes.
OtherFiltersNoScopes(toolkits, tools, tags, scopes, authConfigIds) ==
    IsSet(toolkits) \/ IsSet(tools) \/ IsSet(tags) \/ IsSet(authConfigIds)

\* `toolkits || tools || tags || scopes || authConfigIds`, the filters --search
\* excludes.
OtherFilters(toolkits, tools, tags, scopes, authConfigIds) ==
    IsSet(toolkits) \/ IsSet(tools) \/ IsSet(tags) \/ IsSet(scopes) \/ IsSet(authConfigIds)

\* Variant: only an empty toolkit list is refused.
ScopesMisusedEmptyOnly(scopes, toolkits) ==
    IsSet(scopes) /\ (~IsSet(toolkits) \/ Len(toolkits.items) < 1)

\* `scopes && (!toolkits || toolkits.length !== 1)`
ScopesMisused(scopes, toolkits) ==
    IsSet(scopes) /\ (~IsSet(toolkits) \/ Len(toolkits.items) # 1)

\* Variant: the check of --tools against the other filters is left out.
ToolsErrorNoToolsCheck(o) ==
    LET toolkits == CsvOrNull(o.toolkits)
        tools == CsvOrNull(o.tools)
        tags == CsvOrNull(o.tags)
        scopes == CsvOrNull(o.scopes)
        authConfigIds == CsvOrNull(o.authConfigIds)
        hasSearch == HasSearch(o)
    IN IF ~IsSet(toolkits) /\ ~IsSet(tools) /\ ~hasSearch /\ ~IsSet(tags) /\ ~IsSet(authConfigIds)
       THEN MissingFilter
       ELSE IF hasSearch /\ OtherFilters(toolkits, tools, tags, scopes, authConfigIds)
       THEN SearchConflict
       ELSE IF hasSearch /\ IsFinite(NumberValue(o.limit))
       THEN LimitConflict
       ELSE IF ScopesMisused(scopes, toolkits)
       THEN ScopesUsage
       ELSE ""

\* The first of the validation errors the action throws, "" when it throws none.
ToolsError(o) ==
    LET toolkits == CsvOrNull(o.toolkits)
        tools == CsvOrNull(o.tools)
        tags == CsvOrNull(o.tags)
        scopes == CsvOrNull(o.scopes)
        authConfigIds == CsvOrNull(o.authConfigIds)
        hasSearch == HasSearch(o)
    IN IF ~IsSet(toolkits) /\ ~IsSet(tools) /\ ~hasSearch /\ ~IsSet(tags) /\ ~IsSet(authConfigIds)
       THEN MissingFilter
       ELSE IF hasSearch /\ OtherFilters(toolkits, tools, tags, scopes, authConfigIds)
       THEN SearchConflict
       ELSE IF hasSearch /\ IsFinite(NumberValue(o.limit))
       THEN LimitConflict
       ELSE IF IsSet(tools) /\ (IsSet(toolkits) \/ IsSet(tags) \/ IsSet(scopes)
                                  \/ IsSet(authConfigIds) \/ hasSearch)
       THEN ToolsConflict
       ELSE IF ScopesMisused(scopes, toolkits)
       THEN ScopesUsage
       ELSE ""

\* filters
ToolsFilters(o) ==
    LET f1 == WithMember(JObj(<<>>), IsSet(CsvOrNull(o.tools)), "tools", CsvOrNull(o.tools))
        f2 == WithMember(f1, IsSet(CsvOrNull(o.toolkits)), "toolkits", CsvOrNull(o.toolkits))
        f3 == WithMember(f2, IsSet(CsvOrNull(o.tags)), "tags", CsvOrNull(o.tags))
        f4 == WithMember(f3, IsSet(CsvOrNull(o.scopes)), "scopes", CsvOrNull(o.scopes))
        f5 == WithMember(f4, IsSet(CsvOrNull(o.authConfigIds)), "authConfigIds",
                         CsvOrNull(o.authConfigIds))
        f6 == WithMember(f5, HasSearch(o), "search", StrValue(o.search))
        f7 == WithMember(f6, IsFinite(NumberValue(o.limit)), "limit", NumberValue(o.limit))
    IN WithMember(f7, o.important, "important", JBool(TRUE))

ToolsAction ==
    /\ pc = "start" /\ cmd = "tools"
    /\ LET built == buildClient(globalOptions, env) IN
       /\ client' = built.client
       /\ parsed' = parsed \o built.parsed
       /\ IF ~built.ok THEN Fails(built.message, "")
          ELSE IF ListsAll(options) THEN Awaits("tools.getToolsEnum", <<>>)
          ELSE IF ToolsError(options) # "" THEN Fails(ToolsError(options), "")
          ELSE Awaits("tools.get", <<StrValue(options.user), ToolsFilters(options)>>)
    /\ UNCHANGED <<inputs, outcomes, fileReads>>

ToolsEnumSettled ==
    /\ AwaitingCall("tools", "tools.getToolsEnum")
    /\ \/ Rejects("")
       \/ \E result \in Responses(LastCall, accounts) : Resolved /\ Prints(result)
    /\ UNCHANGED <<inputs, client, parsed, fileReads>>

ToolsGetSettled ==
    /\ AwaitingCall("tools", "tools.get")
    /\ \/ Rejects("")
       \/ \E result \in Responses(LastCall, accounts) : Resolved /\ Prints(result)
    /\ UNCHANGED <<inputs, client, parsed, fileReads>>

(***************************************************************************)
(* execute                                                                 *)
(***************************************************************************)
BothInputs == "Provide either --args or --args-file, not both."

\* Variant: the conflict is never detected.
ArgsConflictTypo(o) == Truthy(o.args) /\ FALSE

\* `if (options.args && options.argsFile)`
ArgsConflict(o) == Truthy(o.args) /\ Truthy(o.argsFile)

\* body; args is undefined when neither source was given.
ExecuteBody(o, args) ==
    LET b0 == JObj(<<Member("userId", StrValue(o.user))>>)
        b1 == WithMember(b0, args.t # "undefined", "arguments", args)
        b2 == WithMember(b1, Truthy(o.connectedAccount), "connectedAccountId",
                         StrValue(o.connectedAccount))
        b3 == WithMember(b2, Truthy(o.version), "version", StrValue(o.version))
        b4 == WithMember(b3, o.skipVersionCheck, "dangerouslySkipVersionCheck", JBool(TRUE))
    IN WithMember(b4, Truthy(o.text), "text", StrValue(o.text))

\* From buildClient to the first await: the file read, or the execution.
ExecuteAction ==
    /\ pc = "start" /\ cmd = "execute"
    /\ LET built == buildClient(globalOptions, env)
           inline == parseJson(options.args.text, "--args")
           args == IF Truthy(options.args) THEN inline.v ELSE JUndefined
       IN /\ client' = built.client
          /\ IF ~built.ok
             THEN /\ Fails(built.message, ExecuteHint)
                  /\ parsed' = parsed \o built.parsed
                  /\ UNCHANGED fileReads
             ELSE IF ArgsConflict(options)
             THEN /\ Fails(BothInputs, ExecuteHint)
                  /\ parsed' = parsed \o built.parsed
                  /\ UNCHANGED fileReads
             ELSE IF Truthy(options.args) /\ ~inline.ok
             THEN /\ Fails(inline.message, ExecuteHint)
                  /\ parsed' = parsed \o built.parsed \o <<"--args">>
                  /\ UNCHANGED fileReads
             ELSE /\ parsed' = parsed \o built.parsed
                                 \o (IF Truthy(options.args) THEN <<"--args">> ELSE <<>>)
                  /\ IF Truthy(options.argsFile)
                     THEN /\ fileReads' = Append(fileReads, options.argsFile.text)
                          /\ pc' = "readFile"
                          /\ UNCHANGED <<calls, printed, stdout, stderr, exitCode>>
                     ELSE /\ UNCHANGED fileReads
                          /\ Awaits("tools.execute",
                                    <<StrValue(options.tool), ExecuteBody(options, args)>>)
    /\ UNCHANGED <<inputs, outcomes>>

\* readJsonFile settles: the read fails, or the contents are parsed.
ExecuteFileSettled ==
    /\ pc = "readFile" /\ cmd = "execute"
    /\ \/ \E message \in FileErrors : Fails(message, ExecuteHint) /\ UNCHANGED parsed
       \/ \E contents \in FileContents :
             LET fromFile == parseJson(contents, "--args-file") IN
             /\ parsed' = Append(parsed, "--args-file")
             /\ IF ~fromFile.ok THEN Fails(fromFile.message, ExecuteHint)
                ELSE Awaits("tools.execute",
                            <<StrValue(options.tool), ExecuteBody(options, fromFile.v)>>)
    /\ UNCHANGED <<inputs, client, outcomes, fileReads>>

ExecuteSettled ==
    /\ AwaitingCall("execute", "tools.execute")
    /\ \/ Rejects(ExecuteHint)
       \/ \E result \in Responses(LastCall, accounts) : Resolved /\ Prints(result)
    /\ UNCHANGED <<inputs, client, parsed, fileReads>>

(***************************************************************************)
(* Specification                                                           *)
(***************************************************************************)
Next ==
    \/ ToolkitsAction
    \/ ToolkitsSettled
    \/ AuthUrlAction
    \/ AuthUrlListSettled
    \/ AuthUrlAuthorizeSettled
    \/ SchemaAction
    \/ SchemaSettled
    \/ ConnectionsAction
    \/ ConnectionsSettled
    \/ ToolsAction
    \/ ToolsEnumSettled
    \/ ToolsGetSettled
    \/ ExecuteAction
    \/ ExecuteFileSettled
    \/ ExecuteSettled

Spec == Init /\ [][Next]_vars

(***************************************************************************)
(* Vocabulary of the properties                                            *)
(***************************************************************************)
Done == pc = "done"
Started == pc # "start"

\* buildClient returned: a credential was found and --toolkit-versions, when
\* given, is well-formed JSON.
ClientBuilt == client.t = "object"

ErrorLine(message) == "Error: " \o message

CallNames == {calls[i].name : i \in 1..Len(calls)}

\* What a reader of standard output gets: JSON.parse of everything written.
RECURSIVE Concat(_)
Concat(writes) == IF writes = <<>> THEN <<>> ELSE Head(writes) \o Concat(Tail(writes))
Output == JSONParse(Concat(stdout))

\* The service holds an ACTIVE connection of the invocation's user to its toolkit.
ActiveConnections ==
    {i \in accounts : /\ Account(i).user = options.user.text
                      /\ Account(i).toolkit = options.toolkit.text
                      /\ Account(i).status = "ACTIVE"}

\* Some element of the printed connectedAccounts has the invocation's toolkit.
PrintsAccountOfToolkit ==
    LET list == Prop(Output.v, "connectedAccounts") IN
    /\ list.t = "array"
    /\ \E i \in 1..Len(list.items) : Prop(list.items[i], "toolkit") = StrValue(options.toolkit)

(***************************************************************************)
(* C1. Whatever the subcommand, when neither --api-key nor                 *)
(* COMPOSIO_API_KEY supplies a credential the invocation ends with exit    *)
(* status 1 and the missing-credential message, and no SDK call (and no    *)
(* file read) is issued at any point of it.                                *)
(***************************************************************************)
NoCredential == ~Truthy(globalOptions.apiKey) /\ ~Truthy(env)

C1_MissingCredential ==
    NoCredential =>
        /\ calls = <<>>
        /\ fileReads = <<>>
        /\ ~ClientBuilt
        /\ pc \in {"start", "done"}
        /\ Done => /\ exitCode = 1
                   /\ stderr # <<>>
                   /\ stderr[1] = ErrorLine(MissingApiKey)
                   /\ stdout = <<>>

C1_Witness ==
    /\ NoCredential /\ Done /\ cmd = "tools"
    /\ Truthy(options.toolkits)
    /\ stderr = <<ErrorLine(MissingApiKey)>>

ScopedConnections ==
    {i \in ActiveConnections :
        Truthy(options.authConfigId) => Account(i).authConfig = options.authConfigId.text}

ExcludedFilterGiven ==
    \/ Truthy(options.toolkits) \/ Truthy(options.tools) \/ Truthy(options.tags)
    \/ Truthy(options.scopes) \/ Truthy(options.authConfigIds)

(***************************************************************************)
(* C4. As written: tools --search X together with any of --toolkits,       *)
(* --tools, --tags, --scopes, --auth-config-ids or --limit fails with a    *)
(* conflicting-filters message and issues no listing call, for every value *)
(* of those flags and whatever other flags are present.  Read here for the *)
(* invocations in which the client is constructed and X and the values of  *)
(* the five list flags are not empty; --limit takes every value.           *)
(***************************************************************************)
SearchConflictLines == {<<ErrorLine(SearchConflict)>>, <<ErrorLine(LimitConflict)>>}

C4_AsWritten ==
    (/\ cmd = "tools" /\ ClientBuilt
     /\ Truthy(options.search)
     /\ ExcludedFilterGiven \/ options.limit.given)
    => /\ Done
       /\ stderr \in SearchConflictLines
       /\ "tools.get" \notin CallNames

(***************************************************************************)
(* C4, amended. tools without --all, once the client is constructed, with  *)
(* a non-empty --search and either a non-empty --toolkits, --tools,        *)
(* --tags, --scopes or --auth-config-ids or a --limit that is a finite     *)
(* number: the invocation fails with exit status 1 and the one line of the *)
(* conflict (the filters' when one of the five is there, else the          *)
(* limit's), and no SDK call is issued.                                    *)
(***************************************************************************)
C4_SearchConflict ==
    (/\ cmd = "tools" /\ ClientBuilt /\ ~options.all
     /\ Truthy(options.search)
     /\ ExcludedFilterGiven \/ IsFinite(NumberValue(options.limit)))
    => /\ Done
       /\ exitCode = 1
       /\ stderr = <<ErrorLine(IF ExcludedFilterGiven THEN SearchConflict ELSE LimitConflict)>>
       /\ calls = <<>>
       /\ stdout = <<>>

C4_Witness ==
    /\ cmd = "tools" /\ Done /\ ClientBuilt /\ ~options.all
    /\ Truthy(options.search) /\ Truthy(options.scopes)
    /\ ~options.toolkits.given /\ ~options.tools.given /\ ~options.tags.given
    /\ ~options.authConfigIds.given /\ ~options.limit.given
    /\ stderr = <<ErrorLine(SearchConflict)>>

(***************************************************************************)
(* C5. As written: tools with --scopes and a --toolkits value naming more  *)
(* than one toolkit always fails with the invalid-scope-usage message, not *)
(* with one of another class, and issues no listing call.  Read here for   *)
(* the invocations in which the client is constructed and --scopes has a   *)
(* non-empty value.                                                        *)
(***************************************************************************)
SeveralToolkits == Len(parseCsv(options.toolkits.text).items) > 1

C5_AsWritten ==
    (cmd = "tools" /\ ClientBuilt /\ Truthy(options.scopes) /\ SeveralToolkits)
    => /\ Done
       /\ stderr = <<ErrorLine(ScopesUsage)>>
       /\ "tools.get" \notin CallNames

(***************************************************************************)
(* C5, amended. tools without --all, without a non-empty --search and      *)
(* without a non-empty --tools, once the client is constructed, with a     *)
(* non-empty --scopes and a --toolkits value naming more than one toolkit: *)
(* the invocation fails with exit status 1 and the invalid-scope-usage     *)
(* line alone, and no SDK call is issued.                                  *)
(***************************************************************************)
C5_ScopesUsage ==
    (/\ cmd = "tools" /\ ClientBuilt /\ ~options.all
     /\ ~Truthy(options.search) /\ ~Truthy(options.tools)
     /\ Truthy(options.scopes) /\ SeveralToolkits)
    => /\ Done
       /\ exitCode = 1
       /\ stderr = <<ErrorLine(ScopesUsage)>>
       /\ calls = <<>>
       /\ stdout = <<>>

C5_Witness ==
    /\ cmd = "tools" /\ Done /\ ClientBuilt /\ ~options.all
    /\ Truthy(options.scopes) /\ SeveralToolkits
    /\ Truthy(options.tags) /\ IsFinite(NumberValue(options.limit))
    /\ stderr = <<ErrorLine(ScopesUsage)>>

(***************************************************************************)
(* C6. As written: execute given both --args and --args-file fails with    *)
(* the conflicting-inputs message for every value of the two flags: the    *)
(* file is never read, no argument JSON is parsed and tools.execute is     *)
(* never called.  Read here for the invocations in which the client is     *)
(* constructed and --args-file names a file.                               *)
(***************************************************************************)
ArgumentLabels == {"--args", "--args-file"}
ParsedLabels == {parsed[i] : i \in 1..Len(parsed)}

C6_AsWritten ==
    (cmd = "execute" /\ ClientBuilt /\ options.args.given /\ Truthy(options.argsFile))
    => /\ Done
       /\ stderr # <<>> /\ stderr[1] = ErrorLine(BothInputs)
       /\ fileReads = <<>>
       /\ ParsedLabels \cap ArgumentLabels = {}
       /\ "tools.execute" \notin CallNames

(***************************************************************************)
(* C6, amended. execute given a non-empty --args and a non-empty           *)
(* --args-file, once the client is constructed, fails with exit status 1,  *)
(* the conflicting-inputs line and the usage hint, whatever the two values *)
(* are: the file is never read, neither argument source is parsed and no   *)
(* SDK call is issued.                                                     *)
(***************************************************************************)
C6_BothInputs ==
    (cmd = "execute" /\ ClientBuilt /\ Truthy(options.args) /\ Truthy(options.argsFile))
    => /\ Done
       /\ exitCode = 1
       /\ stderr = <<ErrorLine(BothInputs), ExecuteHint>>
       /\ fileReads = <<>>
       /\ ParsedLabels \cap ArgumentLabels = {}
       /\ calls = <<>>
       /\ stdout = <<>>

C6_Witness ==
    /\ cmd = "execute" /\ Done /\ ClientBuilt
    /\ options.args = Flag(BrokenText) /\ Truthy(options.argsFile)
    /\ stderr = <<ErrorLine(BothInputs), ExecuteHint>>

(***************************************************************************)
(* C7. tools --all with a credential present, so that the client is        *)
(* constructed: whatever --toolkits, --tools, --search, --tags, --scopes,  *)
(* --auth-config-ids, --limit and --important come with it, no validation  *)
(* error is raised, the one SDK call is the enumeration of the catalog     *)
(* (getToolsEnum, without arguments) and tools.get is never called.        *)
(***************************************************************************)
C7_AllShortCircuits ==
    (cmd = "tools" /\ options.all /\ ClientBuilt)
    => /\ calls = <<Call("tools.getToolsEnum", <<>>)>>
       /\ stderr # <<>> =>
             /\ outcomes = <<"rejected">>
             /\ \E message \in ExternalErrors : stderr = <<ErrorLine(message)>>
       /\ (Done /\ outcomes = <<"resolved">>) =>
             /\ exitCode = 0
             /\ Len(printed) = 1
             /\ printed[1] \in Responses(Call("tools.getToolsEnum", <<>>), accounts)

C7_Witness ==
    /\ cmd = "tools" /\ options.all /\ Done /\ exitCode = 0
    /\ Truthy(options.search) /\ Truthy(options.tools) /\ Truthy(options.scopes)
    /\ SeveralToolkits /\ IsFinite(NumberValue(options.limit)) /\ options.important
    /\ Len(printed) = 1

(***************************************************************************)
(* C8. toolkits --slug S, once the client is constructed: the one SDK call *)
(* is toolkits.get with S alone, and what is printed is the toolkit of     *)
(* slug S that call resolved to, in the output mode chosen; --category,    *)
(* --managed-by, --sort-by, --cursor and --limit enter neither.            *)
(***************************************************************************)
SlugRequest == Call("toolkits.get", <<StrValue(options.slug)>>)

C8_SlugOnly ==
    (cmd = "toolkits" /\ Truthy(options.slug) /\ ClientBuilt)
    => /\ calls = <<SlugRequest>>
       /\ (Done /\ outcomes = <<"resolved">>) =>
             /\ Len(printed) = 1
             /\ printed[1] \in Responses(SlugRequest, {})
             /\ \E isTTY \in BOOLEAN :
                   stdout = printOutput(printed[1], globalOptions.raw, isTTY)
             /\ Output.ok
             /\ Prop(Output.v, "slug") = StrValue(options.slug)

C8_Witness ==
    /\ cmd = "toolkits" /\ Truthy(options.slug) /\ Done /\ exitCode = 0
    /\ Truthy(options.category) /\ Truthy(options.managedBy) /\ Truthy(options.sortBy)
    /\ Truthy(options.cursor) /\ IsFinite(NumberValue(options.limit))
    /\ Prop(Output.v, "slug") = StrValue(options.slug)

(***************************************************************************)
(* C9. Round trip: what an invocation wrote, parsed as JSON, is what the   *)
(* other output mode writes for the same payload, parsed as JSON, and is   *)
(* JSON at all, whatever the payload (object, array, string, null).        *)
(***************************************************************************)
OtherMode(isTTY) == printOutput(printed[1], ~globalOptions.raw, isTTY)

C9_RoundTrip ==
    (Done /\ printed # <<>>)
    => /\ Output.ok
       /\ \A isTTY \in BOOLEAN : JSONParse(Concat(OtherMode(isTTY))) = Output

(***************************************************************************)
(* C10. An invocation that ends after an error (no credential, malformed   *)
(* configuration, a validation error, unreadable or malformed arguments,   *)
(* a rejected SDK call) has exit status 1, wrote nothing to standard       *)
(* output and wrote one `Error: <message>` line to the error stream,       *)
(* followed by the fixed usage hint when the command is execute and by     *)
(* nothing otherwise; one that ends without error printed exactly one      *)
(* payload, wrote nothing to the error stream and has exit status 0.       *)
(* Nothing is written and the status is 0 until the invocation ends.       *)
(***************************************************************************)
\* Every SDK call the action issued resolved, and it issued one.
Succeeded ==
    /\ ClientBuilt
    /\ calls # <<>>
    /\ outcomes = [i \in 1..Len(calls) |-> "resolved"]

Messages ==
    {MissingApiKey, MissingFilter, SearchConflict, LimitConflict, ToolsConflict, ScopesUsage,
     BothInputs}
    \cup {parseJson(BrokenText, label).message :
             label \in {"--toolkit-versions", "--args", "--args-file"}}
    \cup ExternalErrors \cup FileErrors

C10_Reporting ==
    IF ~Done
    THEN exitCode = 0 /\ stdout = <<>> /\ stderr = <<>> /\ printed = <<>>
    ELSE IF Succeeded
    THEN /\ exitCode = 0
         /\ stderr = <<>>
         /\ Len(printed) = 1
         /\ \E isTTY \in BOOLEAN : stdout = printOutput(printed[1], globalOptions.raw, isTTY)
    ELSE /\ exitCode = 1
         /\ stdout = <<>> /\ printed = <<>>
         /\ \E message \in Messages :
               stderr = <<ErrorLine(message)>>
                           \o (IF cmd = "execute" THEN <<ExecuteHint>> ELSE <<>>)

C10_Witness ==
    /\ cmd = "execute" /\ Done
    /\ outcomes = <<"rejected">>
    /\ exitCode = 1
    /\ \E message \in ExternalErrors : stderr = <<ErrorLine(message), ExecuteHint>>

(***************************************************************************)
(* C11. Every filter object the tools command hands to tools.get: with     *)
(* search it has none of toolkits, tools, tags, scopes, authConfigIds and  *)
(* limit; with tools it has none of toolkits, tags, scopes, authConfigIds  *)
(* and search; with scopes it has toolkits with exactly one entry; and it  *)
(* has one of toolkits, tools, search, tags, authConfigIds.  The call is   *)
(* issued once, without --all, with no error written before it, and the    *)
(* filter carries the flags as given: a list key for each non-empty list   *)
(* flag with its parsed items, search for a non-empty --search, limit for  *)
(* a finite --limit.                                                       *)
(***************************************************************************)
\* The filter objects handed to tools.get.
ListingFilters == {calls[i].args[2] : i \in {j \in 1..Len(calls) : calls[j].name = "tools.get"}}

Has(f, key) == Prop(f, key).t # "undefined"

HasAny(f, keys) == \E key \in keys : Has(f, key)

\* filters[key] is the parsed value of a comma-separated flag, absent when
\* the flag is absent or empty.
CarriesList(f, key, flag) ==
    Prop(f, key) = (IF Truthy(flag) THEN parseCsv(flag.text) ELSE JUndefined)

C11_FilterShape ==
    /\ \A f \in ListingFilters :
          /\ Has(f, "search") =>
                ~HasAny(f, {"toolkits", "tools", "tags", "scopes", "authConfigIds", "limit"})
          /\ Has(f, "tools") =>
                ~HasAny(f, {"toolkits", "tags", "scopes", "authConfigIds", "search"})
          /\ Has(f, "scopes") =>
                /\ Prop(f, "toolkits").t = "array"
                /\ Len(Prop(f, "toolkits").items) = 1
          /\ HasAny(f, {"toolkits", "tools", "search", "tags", "authConfigIds"})
          /\ CarriesList(f, "toolkits", options.toolkits)
          /\ CarriesList(f, "tools", options.tools)
          /\ CarriesList(f, "tags", options.tags)
          /\ CarriesList(f, "scopes", options.scopes)
          /\ CarriesList(f, "authConfigIds", options.authConfigIds)
          /\ Has(f, "search") <=> Truthy(options.search)
          /\ Has(f, "limit") <=> IsFinite(NumberValue(options.limit))
    /\ "tools.get" \in CallNames =>
          /\ cmd = "tools" /\ ~options.all /\ ClientBuilt
          /\ Len(calls) = 1
          /\ pc = "await" => (stderr = <<>> /\ exitCode = 0)

C11_Witness ==
    /\ cmd = "tools" /\ Done /\ exitCode = 0
    /\ \E f \in ListingFilters :
          /\ Has(f, "scopes") /\ Has(f, "tags") /\ Has(f, "authConfigIds")
          /\ Has(f, "limit") /\ Has(f, "important")
          /\ Len(Prop(f, "toolkits").items) = 1

(***************************************************************************)
(* C12. No retry: a rejected SDK call is the last call of the invocation,  *)
(* which has ended with it; no call is issued twice; every command issues  *)
(* at most one SDK call, except auth-url without --force, which issues at  *)
(* most two, connectedAccounts.list and then toolkits.authorize, the       *)
(* second only after the first resolved and listed no ACTIVE connection of *)
(* the user to the toolkit (under --auth-config-id, when given).           *)
(***************************************************************************)
\* The positions of the calls that rejected.
RejectedCalls == {i \in 1..Len(outcomes) : outcomes[i] = "rejected"}

\* The most SDK calls the invocation's command may issue.
CallsAllowed == IF cmd = "auth-url" /\ ~options.force THEN 2 ELSE 1

C12_NoRetry ==
    /\ Len(outcomes) <= Len(calls)
    /\ \A i \in RejectedCalls : i = Len(calls) /\ Done /\ exitCode = 1
    /\ \A i, j \in 1..Len(calls) : i # j => calls[i] # calls[j]
    /\ Len(calls) <= CallsAllowed
    /\ Len(calls) = 2 =>
          /\ calls[1].name = "connectedAccounts.list"
          /\ calls[2].name = "toolkits.authorize"
          /\ outcomes # <<>> /\ outcomes[1] = "resolved"
          /\ ScopedConnections = {}

C12_Witness ==
    /\ cmd = "auth-url" /\ ~options.force /\ Done
    /\ Len(calls) = 2
    /\ outcomes = <<"resolved", "rejected">>
    /\ exitCode = 1
    /\ stderr = <<ErrorLine("No auth configs found")>>

==========================================================================
